---- MODULE Spec2Model ----
(***************************************************************************)
(* Model of build.py: the workbook-to-events extractor (read_events), the  *)
(* field normalizers (_safe_str, _parse_time) and the geocoding resolver   *)
(* with its persistent cache (load_cache, save_cache, ensure_geocode,      *)
(* main).                                                                  *)
(*                                                                         *)
(* Texts are sequences of one-character strings, so that lower(), strip(), *)
(* slicing and substring tests are computed as Python computes them.       *)
(* Python's None is the string "None"; floats are strings such as "51.5".  *)
(***************************************************************************)
EXTENDS Integers, Sequences, FiniteSets, TLC

VARIABLES
    pc,         \* position of main: "start", "loop", "done", "aborted"
                \* ("idle" where main is not the function under study)
    run,        \* which invocation of main is executing (1 or 2)
    input,      \* the raw locations read_events returns for the workbook
    events,     \* main's events list
    cacheFile,  \* content of .geocode_cache.json on disk
    cache,      \* main's in-memory cache dict
    unique,     \* main's ordered dict  key -> representative location
    idx,        \* position of the  for k, loc in unique.items()  loop
    log,        \* history: every nominatim_geocode call and time.sleep
    trace,      \* history: one record per ensure_geocode call of main
    written,    \* history: the events list of every events.json written
    book,       \* history: for every sheet read so far, its number of rows
                \* and its header row
    out,        \* read_events: the list  out
    expected,   \* history: the data rows of book with a non-empty normalized
                \* location, as <<sheet number, row number, location>>
    rpc,        \* read_events: "sheets" (looping over the sheets), "done", "idle"
    tx,         \* _parse_time: the argument x
    tparse,     \* _parse_time: what pd.to_datetime does with x
    tres,       \* _parse_time: the returned value
    tpc         \* _parse_time: "call", "returned", "raised", "idle"

vars == <<pc, run, input, events, cacheFile, cache, unique, idx, log, trace,
          written, book, out, expected, rpc, tx, tparse, tres, tpc>>

mainVars == <<pc, run, input, events, cacheFile, cache, unique, idx, log,
              trace, written>>
readVars == <<book, out, expected, rpc>>
timeVars == <<tx, tparse, tres, tpc>>

(***************************************************************************)
(* Bounds                                                                  *)
(***************************************************************************)
MaxEvents == 2      \* events returned by read_events in the main model
MaxSheets == 2      \* sheets of a workbook
MaxRows == 3        \* rows of a sheet
MaxTimeLen == 5     \* characters of a start-time cell

(***************************************************************************)
(* Python values                                                           *)
(***************************************************************************)
None == "None"
UnsetText == <<"<unset>">>      \* a dict key that has not been assigned
Unset == "<unset>"

(***************************************************************************)
(* str methods                                                             *)
(***************************************************************************)
UpperLetters ==
    <<"A", "B", "C", "D", "E", "F", "G", "H", "I", "J", "K", "L", "M", "N",
      "O", "P", "Q", "R", "S", "T", "U", "V", "W", "X", "Y", "Z">>
LowerLetters ==
    <<"a", "b", "c", "d", "e", "f", "g", "h", "i", "j", "k", "l", "m", "n",
      "o", "p", "q", "r", "s", "t", "u", "v", "w", "x", "y", "z">>

\* the lower-case letter of every upper-case letter
LowerOf == [c \in {UpperLetters[i] : i \in DOMAIN UpperLetters} |->
              LowerLetters[CHOOSE i \in DOMAIN UpperLetters : UpperLetters[i] = c]]

LowerChar(c) == IF c \in DOMAIN LowerOf THEN LowerOf[c] ELSE c

lower(s) == <<>> \o [i \in DOMAIN s |-> LowerChar(s[i])]

IsSpace(c) == c \in {" ", "\t", "\n"}

strip(s) ==
    LET solid == {i \in DOMAIN s : ~IsSpace(s[i])}
    IN  IF solid = {} THEN <<>>
        ELSE LET first == CHOOSE i \in solid : \A j \in solid : i <= j
                 last == CHOOSE i \in solid : \A j \in solid : j <= i
             IN  SubSeq(s, first, last)

\* needle in hay
Contains(hay, needle) ==
    \E i \in 0..(Len(hay) - Len(needle)) :
        \A j \in DOMAIN needle : hay[i + j] = needle[j]

\* s[:n]
Prefix(s, n) == SubSeq(s, 1, IF Len(s) < n THEN Len(s) ELSE n)

(***************************************************************************)
(* The geocode cache and its file                                          *)
(***************************************************************************)
\* A cache value.  shape "obj" is a JSON object whose keys are  fields;
\* shape "pair" is a two-element JSON array; shape "absent" means the key
\* is not in the dict.  lat/lon hold the values stored under "lat"/"lon"
\* (for a pair: its two elements) and None when there is no such value.
Entry(shape, fields, lat, lon) ==
    [shape |-> shape, fields |-> fields, lat |-> lat, lon |-> lon]

Absent == Entry("absent", {}, None, None)

HasKey(c, key) == c[key].shape # "absent"

\* "name" in cache[key]
HasField(e, name) == e.shape = "obj" /\ name \in e.fields

JsonToken(v) == IF v = None THEN "null" ELSE v
JsonUntoken(t) == IF t = "null" THEN None ELSE t

JsonValue(e) ==
    IF e.shape = "obj"
    THEN [type |-> "object",
          members |-> {<<f, IF f = "lat" THEN JsonToken(e.lat)
                            ELSE IF f = "lon" THEN JsonToken(e.lon)
                            ELSE "string">> : f \in e.fields}]
    ELSE [type |-> "array",
          members |-> {<<"0", JsonToken(e.lat)>>, <<"1", JsonToken(e.lon)>>}]

Member(jv, name) == (CHOOSE m \in jv.members : m[1] = name)[2]
HasMember(jv, name) == \E m \in jv.members : m[1] = name

PyValue(jv) ==
    IF jv.type = "object"
    THEN Entry("obj", {m[1] : m \in jv.members},
               IF HasMember(jv, "lat") THEN JsonUntoken(Member(jv, "lat")) ELSE None,
               IF HasMember(jv, "lon") THEN JsonUntoken(Member(jv, "lon")) ELSE None)
    ELSE Entry("pair", {}, JsonUntoken(Member(jv, "0")), JsonUntoken(Member(jv, "1")))

MissingFile == [kind |-> "missing", members |-> {}]
CorruptFile == [kind |-> "corrupt", members |-> {}]

\* json.dumps(cache)
json_dumps(c) ==
    [kind |-> "json",
     members |-> {<<k, JsonValue(c[k])>> : k \in {k \in DOMAIN c : HasKey(c, k)}}]

\* json.loads(text), as a dict over the keys  keys
json_loads(f, keys) ==
    [k \in keys |->
        IF \E m \in f.members : m[1] = k
        THEN PyValue((CHOOSE m \in f.members : m[1] = k)[2])
        ELSE Absent]

load_cache(f, keys) ==
    IF f.kind = "json" THEN json_loads(f, keys) ELSE [k \in keys |-> Absent]

\* variant: only resolved entries are written to the file
save_cache_DropNulls(c) ==
    json_dumps([k \in DOMAIN c |-> IF c[k].lat = None THEN Absent ELSE c[k]])

\* CACHE_PATH.write_text(json.dumps(cache, ...))
save_cache(c) == json_dumps(c)

(***************************************************************************)
(* nominatim_geocode and ensure_geocode                                    *)
(***************************************************************************)
UKSuffix == <<",", " ", "U", "K">>     \* stands for ", United Kingdom"

\* What the service does with one request: the request raises (transport
\* error, HTTP error status, malformed payload), the result list is empty,
\* or the top result carries coordinates.
Response(kind, lat, lon) == [kind |-> kind, lat |-> lat, lon |-> lon]

Responses ==
    {Response("raise", None, None), Response("empty", None, None),
     Response("ok", "51.5", "-0.1")}

\* Outcome of one call: raised, or returned value (None or a result).
nominatim_geocode(q, r) ==
    IF r.kind = "raise" THEN [raised |-> TRUE, value |-> None, lat |-> None, lon |-> None]
    ELSE IF r.kind = "empty" THEN [raised |-> FALSE, value |-> None, lat |-> None, lon |-> None]
    ELSE [raised |-> FALSE, value |-> "result", lat |-> r.lat, lon |-> r.lon]

CallOp(q, r) == [op |-> "call", q |-> q, res |-> r.kind]
SleepOp == [op |-> "sleep", q |-> <<>>, res |-> "-"]

\* variant: a cached null is not a hit and is resolved again
CacheHit_RetryNull(c, key) ==
    /\ HasKey(c, key) /\ HasField(c[key], "lat") /\ HasField(c[key], "lon")
    /\ c[key].lat # None

\* key in cache and "lat" in cache[key] and "lon" in cache[key]
CacheHit(c, key) ==
    HasKey(c, key) /\ HasField(c[key], "lat") /\ HasField(c[key], "lon")

\* variant: no try/except around the call
Caught_Reraise(a) == a

\* try: res = nominatim_geocode(q)  except Exception: res = None
Caught(a) ==
    IF a.raised THEN [raised |-> FALSE, value |-> None, lat |-> None, lon |-> None]
    ELSE a

\* variant: the raw query is issued whatever the biased query returned
NeedRaw_Always(res) == TRUE

\* if res is None:  (before the raw query)
NeedRaw(res) == res.value = None

\* cache[key] = {"lat": None, "lon": None, "ts": ...}
FailEntry == Entry("obj", {"lat", "lon", "ts"}, None, None)

\* cache[key] = {"lat": lat, "lon": lon, "display_name": display, "ts": ...}
OkEntry(lat, lon) == Entry("obj", {"lat", "lon", "display_name", "ts"}, lat, lon)

\* ensure_geocode(location, cache) where the service answers the first
\* request with r1 and the second (if any) with r2.  The result carries the
\* returned pair, the cache as mutated, the calls and sleeps performed in
\* order, and whether an exception escaped.
ensure_geocode(location, c, r1, r2) ==
    LET key == strip(lower(location))
        query == location \o UKSuffix
        res1 == Caught(nominatim_geocode(query, r1))
        raw == ~res1.raised /\ NeedRaw(res1)
        res2 == IF raw THEN Caught(nominatim_geocode(location, r2)) ELSE res1
        calls == IF raw
                 THEN <<CallOp(query, r1), CallOp(location, r2)>>
                 ELSE <<CallOp(query, r1)>>
    IN  IF key = <<>>
        THEN [lat |-> None, lon |-> None, cache |-> c, ops |-> <<>>, raised |-> FALSE]
        ELSE IF CacheHit(c, key)
        THEN [lat |-> c[key].lat, lon |-> c[key].lon, cache |-> c, ops |-> <<>>,
              raised |-> FALSE]
        ELSE IF res2.raised
        THEN [lat |-> None, lon |-> None, cache |-> c, ops |-> calls, raised |-> TRUE]
        ELSE IF res2.value = None
        THEN [lat |-> None, lon |-> None, cache |-> [c EXCEPT ![key] = FailEntry],
              ops |-> calls, raised |-> FALSE]
        ELSE [lat |-> res2.lat, lon |-> res2.lon,
              cache |-> [c EXCEPT ![key] = OkEntry(res2.lat, res2.lon)],
              ops |-> calls \o <<SleepOp>>, raised |-> FALSE]

(***************************************************************************)
(* main                                                                    *)
(***************************************************************************)
Locations == {<<"A", "b">>, <<"a", "b">>, <<"c">>}

KeyOf(location) == strip(lower(location))

AllKeys == {KeyOf(l) : l \in Locations}

NewEvent(location) ==
    [location |-> location, lat |-> Unset, lon |-> Unset, location_key |-> UnsetText]

\* d[k] = v  on an insertion-ordered dict, kept as a sequence of <<k, v>>
DictSet(d, k, v) ==
    IF \E i \in DOMAIN d : d[i][1] = k
    THEN [i \in DOMAIN d |-> IF d[i][1] = k THEN <<k, v>> ELSE d[i]]
    ELSE Append(d, <<k, v>>)

RECURSIVE UniqueUpTo(_, _)
UniqueUpTo(evs, n) ==
    IF n = 0 THEN <<>>
    ELSE DictSet(UniqueUpTo(evs, n - 1), KeyOf(evs[n].location), evs[n].location)

RECURSIVE FirstSeenUpTo(_, _)
FirstSeenUpTo(evs, n) ==
    IF n = 0 THEN <<>>
    ELSE LET d == FirstSeenUpTo(evs, n - 1)
             k == KeyOf(evs[n].location)
         IN  IF \E i \in DOMAIN d : d[i][1] = k THEN d
             ELSE Append(d, <<k, evs[n].location>>)

\* variant: unique.setdefault(k, e["location"])
MakeUnique_FirstSeen(evs) == FirstSeenUpTo(evs, Len(evs))

\* unique = {};  for e in events: unique[k] = e["location"]
MakeUnique(evs) == UniqueUpTo(evs, Len(evs))

\* variant: the raw location is compared with the key
StoreBack_RawCompare(evs, k, lat, lon) ==
    [i \in DOMAIN evs |->
        IF evs[i].location = k
        THEN [evs[i] EXCEPT !.lat = lat, !.lon = lon, !.location_key = k]
        ELSE evs[i]]

\* for e in events: if key(e) == k: e["lat"], e["lon"], e["location_key"] = ...
StoreBack(evs, k, lat, lon) ==
    [i \in DOMAIN evs |->
        IF KeyOf(evs[i].location) = k
        THEN [evs[i] EXCEPT !.lat = lat, !.lon = lon, !.location_key = k]
        ELSE evs[i]]

\* Values a cache file found on disk may hold for a key.
InitEntries ==
    {Absent,
     Entry("pair", {}, "9.0", "8.0"),
     Entry("obj", {"ts"}, None, None),
     Entry("obj", {"lat", "ts"}, "9.0", None)}
    \cup {Entry("obj", {"lat", "lon", "ts"}, la, lo) :
            la \in {None, "9.0"}, lo \in {None, "8.0"}}

InitFiles ==
    {MissingFile, CorruptFile}
    \cup {json_dumps(c) : c \in [AllKeys -> InitEntries]}

BoundedSeq(S, n) == UNION {[1..m -> S] : m \in 0..n}

ReadIdle == book = <<>> /\ out = <<>> /\ expected = <<>> /\ rpc = "idle"
TimeIdle ==
    /\ tx = [kind |-> "none", text |-> <<>>, hour |-> 0, minute |-> 0]
    /\ tparse = "-"
    /\ tres = [some |-> FALSE, text |-> <<>>]
    /\ tpc = "idle"

Init ==
    /\ pc = "start"
    /\ run = 1
    /\ input \in BoundedSeq(Locations, MaxEvents)
    /\ events = <<>>
    /\ cacheFile \in InitFiles
    /\ cache = [k \in AllKeys |-> Absent]
    /\ unique = <<>>
    /\ idx = 1
    /\ log = <<>>
    /\ trace = <<>>
    /\ written = <<>>
    /\ ReadIdle
    /\ TimeIdle

\* main, lines 198-205: read the events, load the cache, build unique
Load ==
    /\ pc = "start"
    /\ events' = [i \in DOMAIN input |-> NewEvent(input[i])]
    /\ cache' = load_cache(cacheFile, AllKeys)
    /\ unique' = MakeUnique(events')
    /\ idx' = 1
    /\ pc' = "loop"
    /\ UNCHANGED <<run, input, cacheFile, log, trace, written>>
    /\ UNCHANGED <<readVars, timeVars>>

\* main, lines 207-214: one iteration of the loop over unique.items()
GeocodeKey ==
    /\ pc = "loop"
    /\ idx <= Len(unique)
    /\ \E r1 \in Responses, r2 \in Responses :
         LET k == unique[idx][1]
             loc == unique[idx][2]
             g == ensure_geocode(loc, cache, r1, r2)
         IN  /\ log' = log \o [i \in DOMAIN g.ops |->
                                 [run |-> run, key |-> k, op |-> g.ops[i].op,
                                  q |-> g.ops[i].q, res |-> g.ops[i].res]]
             /\ cache' = g.cache
             /\ IF g.raised
                THEN /\ pc' = "aborted"
                     /\ UNCHANGED <<events, idx, trace>>
                ELSE /\ pc' = "loop"
                     /\ events' = StoreBack(events, k, g.lat, g.lon)
                     /\ idx' = idx + 1
                     /\ trace' = Append(trace,
                                   [run |-> run, key |-> k, loc |-> loc,
                                    before |-> cache[k], after |-> g.cache[k],
                                    lat |-> g.lat, lon |-> g.lon])
    /\ UNCHANGED <<run, input, cacheFile, unique, written>>
    /\ UNCHANGED <<readVars, timeVars>>

\* main, lines 216-229: save the cache, write events.json
SaveAndWrite ==
    /\ pc = "loop"
    /\ idx > Len(unique)
    /\ cacheFile' = save_cache(cache)
    /\ written' = Append(written, events)
    /\ pc' = "done"
    /\ UNCHANGED <<run, input, events, cache, unique, idx, log, trace>>
    /\ UNCHANGED <<readVars, timeVars>>

\* python build.py is run again on the same workbook and the cache file
\* the first run left behind
Rerun ==
    /\ pc = "done"
    /\ run = 1
    /\ run' = 2
    /\ pc' = "start"
    /\ events' = <<>>
    /\ cache' = [k \in AllKeys |-> Absent]
    /\ unique' = <<>>
    /\ idx' = 1
    /\ UNCHANGED <<input, cacheFile, log, trace, written>>
    /\ UNCHANGED <<readVars, timeVars>>

Next == Load \/ GeocodeKey \/ SaveAndWrite \/ Rerun

Spec == Init /\ [][Next]_vars

MainIdle ==
    /\ pc = "idle" /\ run = 1 /\ input = <<>> /\ events = <<>>
    /\ cacheFile = MissingFile /\ cache = [k \in AllKeys |-> Absent]
    /\ unique = <<>> /\ idx = 1 /\ log = <<>> /\ trace = <<>> /\ written = <<>>

(***************************************************************************)
(* _safe_str and _parse_time                                               *)
(***************************************************************************)
\* A cell value: None, a float NaN, a datetime.time, or a string.
NoneCell == [kind |-> "none", text |-> <<>>, hour |-> 0, minute |-> 0]
NaNCell == [kind |-> "nan", text |-> <<>>, hour |-> 0, minute |-> 0]
StrCell(t) == [kind |-> "str", text |-> t, hour |-> 0, minute |-> 0]
TimeCell(h, m) == [kind |-> "time", text |-> <<>>, hour |-> h, minute |-> m]

\* x is None or (isinstance(x, float) and pd.isna(x))
IsMissing(x) == x.kind \in {"none", "nan"}

Digits == <<"0", "1", "2", "3", "4", "5", "6", "7", "8", "9">>

\* f"{n:02d}"
TwoDigits(n) == <<Digits[(n \div 10) + 1], Digits[(n % 10) + 1]>>

\* str(x)
str(x) ==
    IF x.kind = "none" THEN <<"N", "o", "n", "e">>
    ELSE IF x.kind = "nan" THEN <<"n", "a", "n">>
    ELSE IF x.kind = "time"
    THEN TwoDigits(x.hour) \o <<":">> \o TwoDigits(x.minute) \o <<":", "0", "0">>
    ELSE x.text

\* variant: str(x) without .strip()
_safe_str_NoStrip(x) == IF IsMissing(x) THEN <<>> ELSE str(x)

_safe_str(x) == IF IsMissing(x) THEN <<>> ELSE strip(str(x))

\* Optional[str]
NoText == [some |-> FALSE, text |-> <<>>]
Some(t) == [some |-> TRUE, text |-> t]

\* f"{h:02d}:{m:02d}"
HHMM(h, m) == TwoDigits(h) \o <<":">> \o TwoDigits(m)

\* What pd.to_datetime(x, errors="coerce") does: raises, returns NaT, or
\* returns a timestamp.
Parse(kind, h, m) == [kind |-> kind, hour |-> h, minute |-> m]
ParseOutcomes == {Parse("raise", 0, 0), Parse("NaT", 0, 0), Parse("ok", 13, 5)}

\* _parse_time(x) where pd.to_datetime behaves as p; the result is the
\* returned value, or raised when an exception leaves the function.
_parse_time(x, p) ==
    IF IsMissing(x) THEN [raised |-> FALSE, value |-> NoText]
    ELSE IF x.kind = "time"
    THEN [raised |-> FALSE, value |-> Some(HHMM(x.hour, x.minute))]
    ELSE IF p.kind = "NaT" THEN [raised |-> FALSE, value |-> NoText]
    ELSE IF p.kind = "ok"
    THEN [raised |-> FALSE, value |-> Some(HHMM(p.hour, p.minute))]
    ELSE LET s == _safe_str(x)
         IN  IF Len(s) >= 5 /\ s[3] = ":"
             THEN [raised |-> FALSE, value |-> Some(Prefix(s, 5))]
             ELSE [raised |-> FALSE, value |-> NoText]

TimeChars == {"1", "9", ":", " "}

TimeInputs ==
    {NoneCell, NaNCell, TimeCell(13, 0), TimeCell(9, 5)}
    \cup {StrCell(t) : t \in BoundedSeq(TimeChars, MaxTimeLen)}

InitTime ==
    /\ MainIdle
    /\ ReadIdle
    /\ tx \in TimeInputs
    /\ tparse = "-"
    /\ tres = NoText
    /\ tpc = "call"

\* one call of _parse_time(tx)
ParseTime ==
    /\ tpc = "call"
    /\ \E p \in ParseOutcomes :
         LET r == _parse_time(tx, p)
         IN  /\ tparse' = p.kind
             /\ tres' = r.value
             /\ tpc' = IF r.raised THEN "raised" ELSE "returned"
    /\ UNCHANGED tx
    /\ UNCHANGED <<mainVars, readVars>>

NextTime == ParseTime

SpecTime == InitTime /\ [][NextTime]_vars

\* C9: when the structured parse of a text fails (raises or yields NaT) and
\* the trimmed text has ':' as third character and at least five
\* characters, _parse_time returns its first five characters; _parse_time
\* never raises.
C9_FallbackOnAnyParseFailure ==
    /\ tpc # "raised"
    /\ (/\ tpc = "returned"
        /\ tx.kind = "str"
        /\ tparse \in {"raise", "NaT"}
        /\ Len(strip(tx.text)) >= 5
        /\ strip(tx.text)[3] = ":")
       => tres = Some(Prefix(strip(tx.text), 5))

(***************************************************************************)
(* read_events                                                             *)
(***************************************************************************)
HeaderScan == 10        \* range(min(10, len(raw)))

MarkDate ==
    <<"e", "v", "e", "n", "t", " ", "d", "a", "t", "e">>
MarkLocation ==
    <<"e", "v", "e", "n", "t", " ", "l", "o", "c", "a", "t", "i", "o", "n">>
EventLocation ==
    <<"E", "v", "e", "n", "t", " ", "l", "o", "c", "a", "t", "i", "o", "n">>

\* Cells of the workbooks read
HdrDate ==
    <<"E", "v", "e", "n", "t", " ", "d", "a", "t", "e">>
HdrLocation ==
    <<"E", "v", "e", "n", "t", " ", "L", "o", "c", "a", "t", "i", "o", "n",
      " ">>
HdrOldLocation ==
    <<"O", "l", "d", " ", "e", "v", "e", "n", "t", " ", "l", "o", "c", "a",
      "t", "i", "o", "n">>

\* A row of raw: its cells by column
HeaderRowA == <<StrCell(HdrDate), StrCell(HdrLocation)>>
HeaderRowB == <<StrCell(HdrOldLocation), StrCell(HdrDate)>>
DataRowA == <<NaNCell, StrCell(<<"A", "b">>)>>
DataRowB == <<StrCell(<<"c", " ">>), StrCell(<<" ">>)>>

BlankRow == <<NaNCell, NaNCell>>

Rows == {HeaderRowA, HeaderRowB, DataRowA, DataRowB, BlankRow}

\* raw = pd.read_excel(excel_path, sheet_name=sheet, header=None)
Sheets == BoundedSeq(Rows, MaxRows)

\* xls.sheet_names[i - 1]
SheetName(i) == <<" ", "S">> \o TwoDigits(i) \o <<" ">>

\* the row satisfies  any("event date" in c ...) and any("event location" in c ...)
IsHeaderRow(row) ==
    /\ \E j \in DOMAIN row : Contains(lower(strip(str(row[j]))), MarkDate)
    /\ \E j \in DOMAIN row : Contains(lower(strip(str(row[j]))), MarkLocation)

Min(a, b) == IF a < b THEN a ELSE b

RECURSIVE ScanHeader(_, _, _)
\* for i in range(min(10, len(raw))): ... header_row = i; break
\* (rows are numbered from 1; 0 stands for None)
ScanHeader(raw, i, n) ==
    IF i > n THEN 0
    ELSE IF IsHeaderRow(raw[i]) THEN i
    ELSE ScanHeader(raw, i + 1, n)

\* header_row, as a 1-based index into raw
HeaderRow(raw) ==
    LET found == ScanHeader(raw, 1, Min(HeaderScan, Len(raw)))
    IN  IF found = 0 THEN 1 ELSE found

\* df.dropna(how="all")
dropna(rows) ==
    SelectSeq(rows, LAMBDA r : \E j \in DOMAIN r : r[j].kind # "nan" /\ r[j].kind # "none")

RECURSIVE ColsUpTo(_, _)
ColsUpTo(header, n) ==
    IF n = 0 THEN <<>>
    ELSE DictSet(ColsUpTo(header, n - 1), lower(strip(header[n])), header[n])

\* cols = {c.strip().lower(): c for c in df.columns}
Cols(header) == ColsUpTo(header, Len(header))

NoColumn == [some |-> FALSE, text |-> <<>>]

\* pick(*names)
pick(cols, names) ==
    LET exact == {n \in DOMAIN names :
                    \E i \in DOMAIN cols : cols[i][1] = lower(names[n])}
        partial == {i \in DOMAIN cols :
                      \E n \in DOMAIN names : Contains(cols[i][1], lower(names[n]))}
    IN  IF exact # {}
        THEN LET n == CHOOSE n \in exact : \A m \in exact : n <= m
                 i == CHOOSE i \in DOMAIN cols : cols[i][1] = lower(names[n])
             IN  Some(cols[i][2])
        ELSE IF partial # {}
        THEN Some(cols[CHOOSE i \in partial : \A j \in partial : i <= j][2])
        ELSE NoColumn

\* r.get(c) for a row r of df, whose columns are named by header
RowGet(header, r, c) ==
    IF \E j \in DOMAIN header : header[j] = c.text
    THEN r[CHOOSE j \in DOMAIN header : header[j] = c.text]
    ELSE NoneCell

\* loc = _safe_str(r.get(c_loc)) if c_loc else ""
RowLocation(header, r, c_loc) ==
    IF c_loc.some THEN _safe_str(RowGet(header, r, c_loc)) ELSE <<>>

\* ev = {...} for one row, of which the region and the location are kept;
\* "id" is assigned after the loop over the sheets
RowEvent(sheet, header, r, c_loc) ==
    [region |-> strip(sheet),
     location |-> RowLocation(header, r, c_loc),
     id |-> UnsetText]

RECURSIVE BuildEvents(_, _, _, _, _)
\* for _, r in df.iterrows(): ... if not loc: continue ... out.append(ev)
BuildEvents(sheet, header, df, c_loc, n) ==
    IF n = 0 THEN <<>>
    ELSE LET before == BuildEvents(sheet, header, df, c_loc, n - 1)
         IN  IF RowLocation(header, df[n], c_loc) = <<>>
             THEN before
             ELSE Append(before, RowEvent(sheet, header, df[n], c_loc))

\* lines 145-184 for one sheet, header_row being known
SheetRows(sheet, raw, header_row) ==
    LET header == <<>> \o [j \in DOMAIN raw[header_row] |->
                             _safe_str(raw[header_row][j])]
        df == dropna(SubSeq(raw, header_row + 1, Len(raw)))
        c_loc == pick(Cols(header), <<EventLocation>>)
    IN  BuildEvents(sheet, header, df, c_loc, Len(df))

\* the body of  for sheet in xls.sheet_names  for one sheet
SheetEvents(sheet, raw) ==
    IF raw = <<>> THEN <<>>
    ELSE SheetRows(sheet, raw, HeaderRow(raw))

\* f"EVT-{i:04d}"
EventId(i) == <<"E", "V", "T", "-">> \o TwoDigits(i \div 100) \o TwoDigits(i % 100)

\* for i, e in enumerate(out, start=1): e["id"] = ...
AssignIds(evs) == [i \in DOMAIN evs |-> [evs[i] EXCEPT !.id = EventId(i)]]

\* The location column of a header row: the column whose trimmed,
\* lower-cased name is "event location", else the first that contains it.
LocationColumns(hdr) ==
    LET names == [j \in DOMAIN hdr |-> lower(strip(str(hdr[j])))]
        exact == {j \in DOMAIN hdr : hdr[j].kind = "str" /\ names[j] = MarkLocation}
        partial == {j \in DOMAIN hdr :
                      hdr[j].kind = "str" /\ Contains(names[j], MarkLocation)}
    IN  IF exact # {} THEN exact
        ELSE IF partial # {} THEN {CHOOSE j \in partial : \A i \in partial : j <= i}
        ELSE {}

\* the normalized location of a data row, given the location columns of
\* its sheet ("" when there is no such column, or the cell is missing)
NormalizedLocation(cs, row) ==
    IF cs = {} THEN <<>>
    ELSE LET x == row[CHOOSE j \in cs : TRUE]
         IN  IF IsMissing(x) THEN <<>> ELSE strip(str(x))

RECURSIVE ExpectedRows(_, _, _, _)
ExpectedRows(raw, h, cs, n) ==
    IF n <= h THEN <<>>
    ELSE LET loc == NormalizedLocation(cs, raw[n])
         IN  IF loc = <<>> THEN ExpectedRows(raw, h, cs, n - 1)
             ELSE Append(ExpectedRows(raw, h, cs, n - 1), <<n, loc>>)

\* the data rows of a sheet with a non-empty normalized location, in row
\* order: <<row number, location>>
ExpectedOfSheet(raw) ==
    IF raw = <<>> THEN <<>>
    ELSE LET h == HeaderRow(raw)
         IN  ExpectedRows(raw, h, LocationColumns(raw[h]), Len(raw))

InitRead ==
    /\ MainIdle
    /\ TimeIdle
    /\ book = <<>>
    /\ out = <<>>
    /\ expected = <<>>
    /\ rpc = "sheets"

\* read_events, lines 128-184: the next sheet of the workbook is read
ReadSheet ==
    /\ rpc = "sheets"
    /\ Len(book) < MaxSheets
    /\ \E raw \in Sheets :
         /\ book' = Append(book, [nrows |-> Len(raw), header_row |-> HeaderRow(raw)])
         /\ out' = out \o SheetEvents(SheetName(Len(book) + 1), raw)
         /\ LET exp == ExpectedOfSheet(raw)
            IN  expected' = expected \o
                    [n \in DOMAIN exp |-> <<Len(book) + 1, exp[n][1], exp[n][2]>>]
    /\ UNCHANGED rpc
    /\ UNCHANGED <<mainVars, timeVars>>

\* read_events, lines 186-189: no sheet is left; ids are assigned
Finish ==
    /\ rpc = "sheets"
    /\ out' = AssignIds(out)
    /\ rpc' = "done"
    /\ UNCHANGED <<book, expected>>
    /\ UNCHANGED <<mainVars, timeVars>>

NextRead == ReadSheet \/ Finish

SpecRead == InitRead /\ [][NextRead]_vars

IsCall(r, i) == log[i].op = "call" /\ log[i].run = r
IsSleep(r, i) == log[i].op = "sleep" /\ log[i].run = r

\* the network calls issued in run r for key k, in order
CallsFor(r, k) ==
    SelectSeq(log, LAMBDA l : l.op = "call" /\ l.run = r /\ l.key = k)

CallsIn(r) == SelectSeq(log, LAMBDA l : l.op = "call" /\ l.run = r)

Failed(c) == c.res \in {"raise", "empty"}

TraceOf(r) == SelectSeq(trace, LAMBDA t : t.run = r)

Runs == {1, 2}

\* C1: between any two consecutive network calls of one run a sleep is
\* executed, whatever the outcome of the earlier call; a sleep only ever
\* follows a network call (cache hits cause none).
C1_SleepBetweenCalls ==
    \A r \in Runs :
        /\ \A i \in DOMAIN log, j \in DOMAIN log :
             (/\ i < j
              /\ IsCall(r, i)
              /\ IsCall(r, j)
              /\ \A m \in (i + 1)..(j - 1) : ~IsCall(r, m))
             => \E m \in (i + 1)..(j - 1) : IsSleep(r, m)
        /\ \A i \in DOMAIN log :
             IsSleep(r, i) => i > 1 /\ IsCall(r, i - 1)

\* C2 as stated: a key that has any cache entry at all, whatever it holds,
\* gets the stored coordinates, no network call, and an unchanged entry.
C2_AnyEntryIsAHit ==
    \A i \in DOMAIN trace :
        LET t == trace[i] IN
        t.before.shape # "absent" =>
            /\ t.lat = t.before.lat
            /\ t.lon = t.before.lon
            /\ t.after = t.before
            /\ CallsFor(t.run, t.key) = <<>>

\* C2 amended: a key whose cache entry is an object with both a "lat" and a
\* "lon" member (whatever their values, null included) gets the stored
\* coordinates, no network call, and an unchanged entry.
C2_ObjectEntryIsAHit ==
    \A i \in DOMAIN trace :
        LET t == trace[i] IN
        (HasField(t.before, "lat") /\ HasField(t.before, "lon")) =>
            /\ t.lat = t.before.lat
            /\ t.lon = t.before.lon
            /\ t.after = t.before
            /\ CallsFor(t.run, t.key) = <<>>

C2_Witness ==
    /\ pc = "done"
    /\ \E i \in DOMAIN trace :
         /\ HasField(trace[i].before, "lat")
         /\ HasField(trace[i].before, "lon")
         /\ trace[i].before.lat = None
         /\ trace[i].before.lon = None
    /\ \E i \in DOMAIN trace :
         /\ HasField(trace[i].before, "lat")
         /\ HasField(trace[i].before, "lon")
         /\ trace[i].before.lat # None

\* the calls of one key are a prefix of [biased query, raw query], the raw
\* query only after a failed biased query
CallShape(t) ==
    LET cs == CallsFor(t.run, t.key) IN
    /\ Len(cs) <= 2
    /\ Len(cs) >= 1 => cs[1].q = t.loc \o UKSuffix
    /\ Len(cs) = 2 => cs[2].q = t.loc /\ Failed(cs[1])
    /\ (Len(cs) = 1 /\ Failed(cs[1])) => FALSE

OneTracePerKey ==
    \A i \in DOMAIN trace, j \in DOMAIN trace :
        (trace[i].run = trace[j].run /\ trace[i].key = trace[j].key) => i = j

EveryCallTraced ==
    \A i \in DOMAIN log :
        \E j \in DOMAIN trace : trace[j].run = log[i].run /\ trace[j].key = log[i].key

\* C3 as stated: per key the calls are a prefix of [biased, raw], the key is
\* resolved once per run, and the calls of a run number at most twice the
\* distinct keys that had no cache entry.
C3_CallsBoundedByMissingKeys ==
    /\ \A i \in DOMAIN trace : CallShape(trace[i])
    /\ OneTracePerKey
    /\ EveryCallTraced
    /\ \A r \in Runs :
         Len(CallsIn(r)) <=
            2 * Cardinality({i \in DOMAIN trace :
                               trace[i].run = r /\ trace[i].before.shape = "absent"})

\* C3 amended: as C3, the bound counting the distinct keys that had no cache
\* entry holding both a "lat" and a "lon" member.
C3_CallsBoundedByUnresolvedKeys ==
    /\ \A i \in DOMAIN trace : CallShape(trace[i])
    /\ OneTracePerKey
    /\ EveryCallTraced
    /\ \A r \in Runs :
         Len(CallsIn(r)) <=
            2 * Cardinality({i \in DOMAIN trace :
                               /\ trace[i].run = r
                               /\ ~(/\ HasField(trace[i].before, "lat")
                                    /\ HasField(trace[i].before, "lon"))})

C3_Witness ==
    /\ pc = "done"
    /\ \E i \in DOMAIN trace, j \in DOMAIN trace :
         /\ trace[i].run = 1 /\ trace[j].run = 1
         /\ Len(CallsFor(1, trace[i].key)) = 2
         /\ Len(CallsFor(1, trace[j].key)) = 1

IsNullEntry(e) ==
    HasField(e, "lat") /\ HasField(e, "lon") /\ e.lat = None /\ e.lon = None

BothFailed(t) ==
    LET cs == CallsFor(t.run, t.key) IN
    Len(cs) = 2 /\ Failed(cs[1]) /\ Failed(cs[2])

\* C4: when the biased and the raw query of a key both fail, the run is not
\* aborted, ensure_geocode returns (None, None), the cache holds a null
\* entry for the key, and when the run ends every key has been processed
\* and the saved cache file and the written events carry the null result.
C4_TotalFailureIsCachedNull ==
    /\ pc # "aborted"
    /\ \A i \in DOMAIN trace :
         LET t == trace[i] IN
         BothFailed(t) =>
            /\ t.lat = None /\ t.lon = None
            /\ IsNullEntry(t.after)
            /\ t.run = run => (pc \in {"loop", "done"} /\ IsNullEntry(cache[t.key]))
            /\ (t.run = run /\ pc = "done") =>
                 /\ Len(TraceOf(run)) = Len(unique)
                 /\ IsNullEntry(load_cache(cacheFile, AllKeys)[t.key])
                 /\ Len(written) = run
                 /\ \A e \in DOMAIN written[run] :
                      written[run][e].location_key = t.key =>
                         written[run][e].lat = None /\ written[run][e].lon = None

C4_Witness ==
    /\ pc = "done"
    /\ Len(unique) = 2
    /\ BothFailed(trace[1])
    /\ trace[1].run = 1
    /\ Len(CallsFor(1, unique[2][1])) > 0

\* C5: a second run on the same workbook with the cache file the first run
\* saved issues no network call, resolves every key to the pair the first
\* run resolved, and writes the same events list.
C5_SecondRunIdempotent ==
    (pc = "done" /\ run = 2) =>
        /\ CallsIn(2) = <<>>
        /\ Len(written) = 2
        /\ written[2] = written[1]
        /\ Len(TraceOf(2)) = Len(TraceOf(1))
        /\ \A i \in DOMAIN TraceOf(1) :
             /\ TraceOf(2)[i].key = TraceOf(1)[i].key
             /\ TraceOf(2)[i].lat = TraceOf(1)[i].lat
             /\ TraceOf(2)[i].lon = TraceOf(1)[i].lon

C5_Witness ==
    /\ pc = "done" /\ run = 2
    /\ \E i \in DOMAIN trace : trace[i].run = 1 /\ BothFailed(trace[i])
    /\ \E i \in DOMAIN trace :
         trace[i].run = 1 /\ trace[i].lat # None /\ CallsFor(1, trace[i].key) # <<>>

\* C6: in every written events list each event has lat and lon both null or
\* both non-null.
C6_NeverMixedCoordinates ==
    \A w \in DOMAIN written :
        \A e \in DOMAIN written[w] :
            (written[w][e].lat = None) <=> (written[w][e].lon = None)

\* C7: every written event carries location_key = lowercase(trim(location))
\* and the pair resolved for that key in this run; events with the same
\* location_key have the same lat and lon; no field is left unassigned.
C7_EventsCarryResolvedPair ==
    pc = "done" =>
        LET doc == written[run] IN
        /\ \A e \in DOMAIN doc :
             /\ doc[e].location_key # UnsetText
             /\ doc[e].lat # Unset
             /\ doc[e].lon # Unset
             /\ doc[e].location_key = lower(strip(doc[e].location))
             /\ \E i \in DOMAIN trace :
                  /\ trace[i].run = run
                  /\ trace[i].key = doc[e].location_key
                  /\ trace[i].lat = doc[e].lat
                  /\ trace[i].lon = doc[e].lon
        /\ \A e \in DOMAIN doc, f \in DOMAIN doc :
             doc[e].location_key = doc[f].location_key =>
                 doc[e].lat = doc[f].lat /\ doc[e].lon = doc[f].lon

C7_Witness ==
    /\ pc = "done"
    /\ \E e \in DOMAIN events, f \in DOMAIN events :
         /\ events[e].location # events[f].location
         /\ events[e].location_key = events[f].location_key
         /\ events[e].lat \notin {None, Unset}

FirstIndexOf(k) ==
    CHOOSE i \in DOMAIN input :
        KeyOf(input[i]) = k /\ \A j \in DOMAIN input : KeyOf(input[j]) = k => i <= j

LastIndexOf(k) ==
    CHOOSE i \in DOMAIN input :
        KeyOf(input[i]) = k /\ \A j \in DOMAIN input : KeyOf(input[j]) = k => j <= i

QueriesUse(t, loc) ==
    LET cs == CallsFor(t.run, t.key) IN
    /\ Len(cs) >= 1 => cs[1].q = loc \o UKSuffix
    /\ Len(cs) >= 2 => cs[2].q = loc

\* C10 as stated: the representative passed to ensure_geocode for a key, and
\* the text of its queries, is the raw location of the first event with
\* that key.
C10_RepresentativeIsFirst ==
    \A i \in DOMAIN trace :
        /\ trace[i].loc = input[FirstIndexOf(trace[i].key)]
        /\ QueriesUse(trace[i], input[FirstIndexOf(trace[i].key)])

\* C10 amended: the representative passed to ensure_geocode for a key, and
\* the text of its queries, is the raw location of the last event with that
\* key.
C10_RepresentativeIsLast ==
    \A i \in DOMAIN trace :
        /\ trace[i].loc = input[LastIndexOf(trace[i].key)]
        /\ QueriesUse(trace[i], input[LastIndexOf(trace[i].key)])

C10_Witness ==
    \E i \in DOMAIN trace :
        /\ input[FirstIndexOf(trace[i].key)] # input[LastIndexOf(trace[i].key)]
        /\ Len(CallsFor(trace[i].run, trace[i].key)) = 2

====
